---- MODULE Spec2Model ----
(***************************************************************************)
(* Model of MoneyLion/src/03_nb_exporter.py: the command line entry point, *)
(* export_all_notebooks, and export_notebook (timestamped output name,     *)
(* nbconvert subprocess, injection of html_injection before "</head>",     *)
(* completion log line).                                                   *)
(*                                                                         *)
(* Text is a sequence of tokens.  File and path names are sequences of     *)
(* one-character strings; HTML text is a sequence of lexical chunks, the   *)
(* marker "</head>" being the two chunks "</" and "head>" so that a        *)
(* partial match is possible.                                              *)
(***************************************************************************)
EXTENDS Integers, Sequences, FiniteSets, TLC

VARIABLES
    argv,       \* sys.argv[1:], the notebook names given on the command line
    pc,         \* position of the (single-threaded) program
    nb,         \* 1-based index of the for loop of export_all_notebooks
    clock,      \* wall clock read by datetime.now(), in seconds since 1970-01-01
    fs,         \* HTML files on disk: path -> text
    stdout,     \* lines printed so far
    html_file,  \* local variable html_file of the running export_notebook call
    exc,        \* uncaught exception that ended the process, or "none"
    events,     \* history: what the calls did to subprocesses and files, in order
    pres,       \* the exported page in a browser: its pre elements, in document order
    body,       \* the class list of the page's body element
    loaded,     \* DOMContentLoaded has been dispatched
    last        \* history: the page function called last, and what was hidden then

vars == <<argv, pc, nb, clock, fs, stdout, html_file, exc, events, pres, body, loaded, last>>

\* the state of the page
page == <<pres, body, loaded, last>>

----------------------------------------------------------------------------
(* Bounds *)

MaxArgs == 2        \* longest command line
MaxTicks == 1       \* seconds the clock may advance during a run
MaxMarkers == 1     \* most "</head>" markers in a document the converter writes
MaxHtmlLen == 4     \* longest text handed to the postprocessing step alone
MaxApply == 2       \* applications of the postprocessing step to one file
MaxTorn == 1        \* longest prefix a failed write leaves behind, in chunks
MaxPre == 3         \* most pre elements in a page
MaxCopies == 2      \* most copies of the injection in a page (one per marker)

----------------------------------------------------------------------------
(* Text helpers *)

IsPrefixAt(s, k, pat) ==
    /\ k >= 1
    /\ k + Len(pat) - 1 <= Len(s)
    /\ SubSeq(s, k, k + Len(pat) - 1) = pat

\* positions at which pat occurs in s
Occurrences(s, pat) == {k \in 1..Len(s) : IsPrefixAt(s, k, pat)}

\* str.count(pat): the number of occurrences of pat in s
Count(s, pat) == Cardinality(Occurrences(s, pat))

\* all token sequences over alphabet A of length at most n
RECURSIVE SeqsUpTo(_, _)
SeqsUpTo(A, n) ==
    IF n = 0 THEN {<<>>}
    ELSE LET shorter == SeqsUpTo(A, n - 1)
         IN  shorter \cup {Append(s, a) : s \in {t \in shorter : Len(t) = n - 1}, a \in A}

----------------------------------------------------------------------------
(* datetime.now().strftime(...) *)

DigitChars == <<"0", "1", "2", "3", "4", "5", "6", "7", "8", "9">>

IsDigit(c) == \E d \in 1..10 : DigitChars[d] = c

\* n as w decimal digits, zero padded (the %Y %m %d %H %M %S fields)
RECURSIVE Pad(_, _)
Pad(n, w) ==
    IF w = 0 THEN <<>>
    ELSE Pad(n \div 10, w - 1) \o <<DigitChars[(n % 10) + 1]>>

\* proleptic Gregorian calendar: day number (0 = 1970-01-01) of a date
DaysFromCivil(y0, m, d) ==
    LET y   == IF m <= 2 THEN y0 - 1 ELSE y0
        era == y \div 400
        yoe == y - era * 400
        mp  == IF m > 2 THEN m - 3 ELSE m + 9
        doy == (153 * mp + 2) \div 5 + d - 1
        doe == yoe * 365 + yoe \div 4 - yoe \div 100 + doy
    IN  era * 146097 + doe - 719468

\* and the date of a day number
CivilFromDays(days) ==
    LET z   == days + 719468
        era == z \div 146097
        doe == z - era * 146097
        yoe == (doe - doe \div 1460 + doe \div 36524 - doe \div 146096) \div 365
        doy == doe - (365 * yoe + yoe \div 4 - yoe \div 100)
        mp  == (5 * doy + 2) \div 153
        d   == doy - (153 * mp + 2) \div 5 + 1
        m   == IF mp < 10 THEN mp + 3 ELSE mp - 9
        y   == yoe + era * 400 + (IF m <= 2 THEN 1 ELSE 0)
    IN  [year |-> y, month |-> m, day |-> d]

Instant(y, m, d, hh, mm, ss) ==
    DaysFromCivil(y, m, d) * 86400 + hh * 3600 + mm * 60 + ss

\* the broken-down time datetime.now() returns for a clock value
now(t) ==
    LET date == CivilFromDays(t \div 86400)
        sod  == t % 86400
    IN  [year |-> date.year, month |-> date.month, day |-> date.day,
         hour |-> sod \div 3600, minute |-> (sod % 3600) \div 60, second |-> sod % 60]

\* strftime("%Y%m%d%H%M%S"): the 14-digit form, without a separator
strftime_compact(t) ==
    LET n == now(t)
    IN  Pad(n.year, 4) \o Pad(n.month, 2) \o Pad(n.day, 2)
        \o Pad(n.hour, 2) \o Pad(n.minute, 2) \o Pad(n.second, 2)

\* strftime("%Y%m%d_%H%M%S"), line 56
strftime_file(t) ==
    LET n == now(t)
    IN  Pad(n.year, 4) \o Pad(n.month, 2) \o Pad(n.day, 2) \o <<"_">>
        \o Pad(n.hour, 2) \o Pad(n.minute, 2) \o Pad(n.second, 2)

\* strftime("%Y-%m-%d %H:%M:%S"), lines 95 and 298
strftime_human(t) ==
    LET n == now(t)
    IN  Pad(n.year, 4) \o <<"-">> \o Pad(n.month, 2) \o <<"-">> \o Pad(n.day, 2)
        \o <<" ">> \o Pad(n.hour, 2) \o <<":">> \o Pad(n.minute, 2)
        \o <<":">> \o Pad(n.second, 2)

\* instants at which a run may start
StartInstants ==
    {Instant(2024, 12, 31, 23, 59, 59), Instant(2025, 9, 25, 9, 5, 7)}

----------------------------------------------------------------------------
(* pathlib *)

Cwd == "/w"

\* the command line arguments the model draws from: 1.a.nb (relative and
\* absolute, cf. "1. EDA.ipynb" on line 29) and /d/.nb
NotebookNames ==
    { [parent |-> ".",  name |-> <<"1", ".", "a", ".", "n", "b">>],
      [parent |-> "/w", name |-> <<"1", ".", "a", ".", "n", "b">>],
      [parent |-> "/d", name |-> <<".", "n", "b">>] }

\* Path(...).resolve(): a relative path is taken from the working directory
resolve(p) == IF p.parent = "." THEN [p EXCEPT !.parent = Cwd] ELSE p

\* str.rfind(ch), 1-based, 0 when ch does not occur
rfind(s, ch) ==
    IF \E k \in 1..Len(s) : s[k] = ch
    THEN CHOOSE k \in 1..Len(s) : s[k] = ch /\ \A j \in (k + 1)..Len(s) : s[j] # ch
    ELSE 0

\* PurePath.stem: the name without its last suffix; a leading or a trailing
\* dot does not start a suffix
stem(name) ==
    LET k == rfind(name, ".")
    IN  IF 1 < k /\ k < Len(name) THEN SubSeq(name, 1, k - 1) ELSE name

with_name(p, name) == [p EXCEPT !.name = name]

DotHtml == <<".", "h", "t", "m", "l">>

\* lines 53-59: the output path for a notebook name at clock value t
HtmlFileFor(notebook_name, t) ==
    LET notebook == resolve(notebook_name)
    IN  with_name(notebook, stem(notebook.name) \o <<"_">> \o strftime_file(t) \o DotHtml)

NoPath == [parent |-> "", name |-> <<>>]

----------------------------------------------------------------------------
(* HTML text and the injection *)

\* "</head>"
Marker == <<"</", "head>">>

Alphabet == {"</", "head>", "t"}

\* a document with k markers, text around each
RECURSIVE Doc(_)
Doc(k) == IF k = 0 THEN <<"t">> ELSE Doc(k - 1) \o Marker \o <<"t">>

\* what the converter may write: an empty file, documents with
\* 0..MaxMarkers markers
ConverterOutputs == {<<>>} \cup {Doc(k) : k \in 0..MaxMarkers}

\* what the postprocessing step alone is given: any short text
HtmlTexts == SeqsUpTo(Alphabet, MaxHtmlLen)

\* lines 92-288: the f-string html_injection; everything up to "Exported on "
\* is one chunk, the footer time is spelled out, "</footer>" closes it
html_injection(t) == <<"<style>">> \o strftime_human(t) \o <<"</footer>">>

\* variant: str.replace(old, new, 1), only the first occurrence
replace_first(s, old, new) ==
    IF Occurrences(s, old) = {} THEN s
    ELSE LET k == CHOOSE i \in Occurrences(s, old) : \A j \in Occurrences(s, old) : i <= j
         IN  SubSeq(s, 1, k - 1) \o new \o SubSeq(s, k + Len(old), Len(s))

\* variant: falls back to appending new when old does not occur
replace_or_append(s, old, new) ==
    IF Occurrences(s, old) = {} THEN s \o new
    ELSE LET k == CHOOSE i \in Occurrences(s, old) : \A j \in Occurrences(s, old) : i <= j
         IN  SubSeq(s, 1, k - 1) \o new \o SubSeq(s, k + Len(old), Len(s))

\* str.replace(old, new): every non-overlapping occurrence, scanning from the left
RECURSIVE replace(_, _, _)
replace(s, old, new) ==
    IF Len(s) < Len(old) THEN s
    ELSE IF SubSeq(s, 1, Len(old)) = old
         THEN new \o replace(SubSeq(s, Len(old) + 1, Len(s)), old, new)
         ELSE <<Head(s)>> \o replace(Tail(s), old, new)

\* variant: a text that already carries the injection is left alone
Injected_once(text, t) ==
    IF \E k \in 1..Len(text) : text[k] = "<style>" THEN text
    ELSE replace(text, Marker, html_injection(t) \o Marker)

\* lines 291-295: the text written back for the text read at clock value t
Injected(text, t) == replace(text, Marker, html_injection(t) \o Marker)

----------------------------------------------------------------------------
(* History *)

Event(op, file, text) == [op |-> op, call |-> nb, file |-> file, text |-> text]

UsageLine == [level |-> "USAGE", time |-> <<>>, src |-> NoPath, dst |-> <<>>]

InfoLine(t, notebook_name, file) ==
    [level |-> "INFO", time |-> strftime_human(t), src |-> notebook_name, dst |-> file.name]

----------------------------------------------------------------------------
(* The program *)

\* no call of a page function yet
NoCall == [fn |-> "none", lines_hidden |-> FALSE, headings_hidden |-> FALSE]

\* while the script runs no exported page is open
PageClosed ==
    /\ pres = <<>>
    /\ body = {}
    /\ loaded = FALSE
    /\ last = NoCall

Init ==
    /\ PageClosed
    /\ argv \in SeqsUpTo(NotebookNames, MaxArgs)
    /\ pc = "main"
    /\ nb = 0
    /\ clock \in StartInstants
    /\ fs = [f \in {} |-> <<>>]
    /\ stdout = <<>>
    /\ html_file = NoPath
    /\ exc = "none"
    /\ events = <<>>

\* variant: export_all_notebooks is called whatever the argument list
Main_unguarded ==
    /\ pc = "main"
    /\ pc' = "for"
    /\ nb' = 1
    /\ UNCHANGED <<argv, clock, fs, stdout, html_file, exc, events>>
    /\ UNCHANGED page

\* lines 308-316
Main ==
    /\ pc = "main"
    /\ IF argv = <<>>
       THEN /\ stdout' = Append(stdout, UsageLine)
            /\ pc' = "exit"
            /\ nb' = nb
       ELSE /\ stdout' = stdout
            /\ pc' = "for"
            /\ nb' = 1
    /\ UNCHANGED <<argv, clock, fs, html_file, exc, events>>
    /\ UNCHANGED page

\* lines 303-305 and 53-59: the loop head; the call computes its output path
ForNext ==
    /\ pc = "for"
    /\ IF nb > Len(argv)
       THEN /\ pc' = "exit"
            /\ html_file' = html_file
       ELSE /\ pc' = "run"
            /\ html_file' = HtmlFileFor(argv[nb], clock)
    /\ UNCHANGED <<argv, nb, clock, fs, stdout, exc, events>>
    /\ UNCHANGED page

\* lines 63-68: subprocess.run starts jupyter nbconvert and blocks
Spawn ==
    /\ pc = "run"
    /\ pc' = "wait"
    /\ events' = Append(events, Event("spawn", html_file, <<>>))
    /\ UNCHANGED <<argv, nb, clock, fs, stdout, html_file, exc>>
    /\ UNCHANGED page

\* the converter writes the requested file and exits with status 0
ConverterExitZero ==
    /\ pc = "wait"
    /\ \E text \in ConverterOutputs :
        /\ fs' = (html_file :> text) @@ fs
        /\ events' = Append(events, Event("exit0", html_file, text))
    /\ pc' = "inject"
    /\ UNCHANGED <<argv, nb, clock, stdout, html_file, exc>>
    /\ UNCHANGED page

\* variant: check = False, the exit status is ignored
ConverterExitNonZero_unchecked ==
    /\ pc = "wait"
    /\ events' = Append(events, Event("exit1", html_file, <<>>))
    /\ pc' = "inject"
    /\ UNCHANGED <<argv, nb, clock, fs, stdout, html_file, exc>>
    /\ UNCHANGED page

\* line 66, check = True: a non-zero status raises CalledProcessError
ConverterExitNonZero ==
    /\ pc = "wait"
    /\ events' = Append(events, Event("exit1", html_file, <<>>))
    /\ exc' = "CalledProcessError"
    /\ pc' = "raised"
    /\ UNCHANGED <<argv, nb, clock, fs, stdout, html_file>>
    /\ UNCHANGED page

\* lines 92-295: read_text, replace, write_text
Inject ==
    /\ pc = "inject"
    /\ html_file \in DOMAIN fs
    /\ LET text == fs[html_file]
           new  == Injected(text, clock)
       IN  /\ fs' = [fs EXCEPT ![html_file] = new]
           /\ events' = events \o <<Event("read", html_file, text),
                                    Event("write", html_file, new)>>
    /\ pc' = "log"
    /\ UNCHANGED <<argv, nb, clock, stdout, html_file, exc>>
    /\ UNCHANGED page

\* line 292: read_text raises (file missing or unreadable)
InjectReadFails ==
    /\ pc = "inject"
    /\ exc' = "OSError"
    /\ pc' = "raised"
    /\ UNCHANGED <<argv, nb, clock, fs, stdout, html_file, events>>
    /\ UNCHANGED page

\* line 291: write_text raises; the file is untouched if it could not be
\* opened, otherwise it holds a prefix of the new text
InjectWriteFails ==
    /\ pc = "inject"
    /\ html_file \in DOMAIN fs
    /\ LET text == fs[html_file]
           new  == Injected(text, clock)
       IN  /\ \/ fs' = fs
              \/ \E k \in 0..MaxTorn :
                    /\ k < Len(new)
                    /\ fs' = [fs EXCEPT ![html_file] = SubSeq(new, 1, k)]
           /\ events' = Append(events, Event("read", html_file, text))
    /\ exc' = "OSError"
    /\ pc' = "raised"
    /\ UNCHANGED <<argv, nb, clock, stdout, html_file>>
    /\ UNCHANGED page

\* line 298, and the return to the loop
Log ==
    /\ pc = "log"
    /\ stdout' = Append(stdout, InfoLine(clock, argv[nb], html_file))
    /\ events' = Append(events, Event("print", html_file, <<>>))
    /\ nb' = nb + 1
    /\ pc' = "for"
    /\ UNCHANGED <<argv, clock, fs, html_file, exc>>
    /\ UNCHANGED page

\* the wall clock advances while the process runs
Tick ==
    /\ pc \notin {"exit", "raised"}
    /\ \E s \in StartInstants : s <= clock /\ clock < s + MaxTicks
    /\ clock' = clock + 1
    /\ UNCHANGED <<argv, pc, nb, fs, stdout, html_file, exc, events>>
    /\ UNCHANGED page

Next ==
    \/ Main
    \/ ForNext
    \/ Spawn
    \/ ConverterExitZero
    \/ ConverterExitNonZero
    \/ Inject
    \/ InjectReadFails
    \/ InjectWriteFails
    \/ Log
    \/ Tick

Spec == Init /\ [][Next]_vars

TypeOK ==
    /\ pc \in {"main", "for", "run", "wait", "inject", "log", "exit", "raised"}
    /\ exc \in {"none", "CalledProcessError", "OSError"}
    /\ nb \in 0..(MaxArgs + 2)

----------------------------------------------------------------------------
(* The postprocessing step on its own: the state of export_notebook right   *)
(* after a successful conversion, for any short converted text, and the     *)
(* step applied to the same file again.                                     *)

InitPost ==
    \E p \in NotebookNames, text \in HtmlTexts, t \in StartInstants :
        /\ PageClosed
        /\ argv = <<p>>
        /\ pc = "inject"
        /\ nb = 1
        /\ clock = t
        /\ html_file = HtmlFileFor(p, t)
        /\ fs = (HtmlFileFor(p, t) :> text)
        /\ stdout = <<>>
        /\ exc = "none"
        /\ events = << [op |-> "spawn", call |-> 1, file |-> HtmlFileFor(p, t), text |-> <<>>],
                       [op |-> "exit0", call |-> 1, file |-> HtmlFileFor(p, t), text |-> text] >>

\* number of events of a kind
NumEvents(op) == Cardinality({i \in 1..Len(events) : events[i].op = op})

\* lines 291-295 executed once more on the file just written
PostprocessAgain ==
    /\ pc = "log"
    /\ NumEvents("write") < MaxApply
    /\ pc' = "inject"
    /\ UNCHANGED <<argv, nb, clock, fs, stdout, html_file, exc, events>>
    /\ UNCHANGED page

NextPost ==
    \/ Inject
    \/ PostprocessAgain
    \/ Tick

SpecPost == InitPost /\ [][NextPost]_vars

----------------------------------------------------------------------------
(* The exported page in a browser: the script block of html_injection,       *)
(* lines 155-270.  A pre element is its class list and whether it lies in a  *)
(* code cell (matches "div.input_area pre, div.highlight pre").              *)

\* the shapes of a page: for each pre element, whether it lies in a code cell
PreShapes == SeqsUpTo(BOOLEAN, MaxPre)

\* copies of the injection the exported file holds
Scripts == Count(fs[html_file], <<"<style>">>)

\* a page is opened on the file an export of one notebook produced; the
\* converter's markup carries neither line-numbered nor hide-lines
InitPage ==
    \E p \in NotebookNames, k \in 1..MaxCopies, t \in StartInstants, shape \in PreShapes :
        /\ argv = <<p>>
        /\ pc = "exit"
        /\ nb = 2
        /\ clock = t
        /\ html_file = HtmlFileFor(p, t)
        /\ fs = (HtmlFileFor(p, t) :> Injected(Doc(k), t))
        /\ stdout = <<InfoLine(t, p, HtmlFileFor(p, t))>>
        /\ exc = "none"
        /\ events =
             << [op |-> "spawn", call |-> 1, file |-> HtmlFileFor(p, t), text |-> <<>>],
                [op |-> "exit0", call |-> 1, file |-> HtmlFileFor(p, t), text |-> Doc(k)],
                [op |-> "read",  call |-> 1, file |-> HtmlFileFor(p, t), text |-> Doc(k)],
                [op |-> "write", call |-> 1, file |-> HtmlFileFor(p, t),
                 text |-> Injected(Doc(k), t)],
                [op |-> "print", call |-> 1, file |-> HtmlFileFor(p, t), text |-> <<>>] >>
        /\ pres = [i \in 1..Len(shape) |-> [code |-> shape[i], classes |-> {}]]
        /\ body = {}
        /\ loaded = FALSE
        /\ last = NoCall

\* classList.toggle(c), classList.remove(c), classList.add(c)
classList_toggle(classes, c) == IF c \in classes THEN classes \ {c} ELSE classes \cup {c}
classList_remove(classes, c) == classes \ {c}
classList_add(classes, c) == classes \cup {c}

\* querySelectorAll("pre.line-numbered")
LineNumbered(ps) == {i \in DOMAIN ps : "line-numbered" \in ps[i].classes}

\* lines 158-192: one DOMContentLoaded listener; every pre of a code cell that
\* is not yet line-numbered gets the class (the heading loop of lines 195-248
\* touches neither pre elements nor the body's class list)
OnDOMContentLoaded(ps) ==
    [i \in DOMAIN ps |->
        IF ps[i].code /\ "line-numbered" \notin ps[i].classes
        THEN [ps[i] EXCEPT !.classes = classList_add(@, "line-numbered")]
        ELSE ps[i]]

\* the listeners of n script copies, run one after the other
RECURSIVE RunListeners(_, _)
RunListeners(ps, n) == IF n = 0 THEN ps ELSE RunListeners(OnDOMContentLoaded(ps), n - 1)

\* lines 253-255
ToggledLines(ps) ==
    [i \in DOMAIN ps |->
        IF i \in LineNumbered(ps)
        THEN [ps[i] EXCEPT !.classes = classList_toggle(@, "hide-lines")]
        ELSE ps[i]]

\* lines 266-268
ShownLines(ps) ==
    [i \in DOMAIN ps |->
        IF i \in LineNumbered(ps)
        THEN [ps[i] EXCEPT !.classes = classList_remove(@, "hide-lines")]
        ELSE ps[i]]

\* what is hidden when a page function is called
Called(fn) ==
    [fn |-> fn,
     lines_hidden |-> \E i \in LineNumbered(pres) : "hide-lines" \in pres[i].classes,
     headings_hidden |-> "hide-headings" \in body]

program == <<argv, pc, nb, clock, fs, stdout, html_file, exc, events>>

\* line 156: the document has been parsed
DOMContentLoaded ==
    /\ ~loaded
    /\ loaded' = TRUE
    /\ pres' = RunListeners(pres, Scripts)
    /\ UNCHANGED <<body, last>>
    /\ UNCHANGED program

\* lines 252-256, button "Toggle Line Numbers"
toggleLines ==
    /\ Scripts >= 1
    /\ pres' = ToggledLines(pres)
    /\ last' = Called("toggleLines")
    /\ UNCHANGED <<body, loaded>>
    /\ UNCHANGED program

\* lines 257-259, button "Toggle Heading Numbers"
toggleHeadings ==
    /\ Scripts >= 1
    /\ body' = classList_toggle(body, "hide-headings")
    /\ last' = Called("toggleHeadings")
    /\ UNCHANGED <<pres, loaded>>
    /\ UNCHANGED program

\* lines 260-263, button "Toggle All Numbers"
toggleAll ==
    /\ Scripts >= 1
    /\ pres' = ToggledLines(pres)
    /\ body' = classList_toggle(body, "hide-headings")
    /\ last' = Called("toggleAll")
    /\ UNCHANGED loaded
    /\ UNCHANGED program

\* variant: the reset toggles the classes instead of removing them
resetView_toggling ==
    /\ Scripts >= 1
    /\ body' = classList_toggle(body, "hide-headings")
    /\ pres' = ToggledLines(pres)
    /\ last' = Called("resetView")
    /\ UNCHANGED loaded
    /\ UNCHANGED program

\* lines 264-269, button "Reset View"
resetView ==
    /\ Scripts >= 1
    /\ body' = classList_remove(body, "hide-headings")
    /\ pres' = ShownLines(pres)
    /\ last' = Called("resetView")
    /\ UNCHANGED loaded
    /\ UNCHANGED program

NextPage ==
    \/ DOMContentLoaded
    \/ toggleLines
    \/ toggleHeadings
    \/ toggleAll
    \/ resetView

SpecPage == InitPage /\ [][NextPage]_vars

----------------------------------------------------------------------------
(* Properties *)

\* clock values a run can see
ClockValues == {s + d : s \in StartInstants, d \in 0..MaxTicks}

PayloadLen == Len(html_injection(clock))

\* an instance of the injection payload starts at position k of s
IsPayloadAt(s, k) == \E t \in ClockValues : IsPrefixAt(s, k, html_injection(t))

PayloadCount(s) == Cardinality({k \in 1..Len(s) : IsPayloadAt(s, k)})

\* the text the converter wrote most recently
Converted ==
    LET i == CHOOSE j \in 1..Len(events) :
                 /\ events[j].op = "exit0"
                 /\ \A l \in (j + 1)..Len(events) : events[l].op # "exit0"
    IN  events[i].text

\* the postprocessing step has just been applied for the n-th time
AppliedTimes(n) == pc = "log" /\ NumEvents("write") = n

\* S is name without its extension: the part before the last dot, unless that
\* dot is the first or the last character or there is none
IsStemOf(S, name) ==
    LET dots == {k \in 2..(Len(name) - 1) :
                    name[k] = "." /\ \A j \in (k + 1)..Len(name) : name[j] # "."}
    IN  IF dots = {} THEN S = name
        ELSE \E k \in dots : S = SubSeq(name, 1, k - 1)

AllDigits(s) == \A k \in 1..Len(s) : IsDigit(s[k])

\* YYYYMMDDHHMMSS
IsTimestamp14(ts) == Len(ts) = 14 /\ AllDigits(ts)

\* YYYYMMDD_HHMMSS
IsTimestamp8_6(ts) ==
    /\ Len(ts) = 15
    /\ AllDigits(SubSeq(ts, 1, 8))
    /\ ts[9] = "_"
    /\ AllDigits(SubSeq(ts, 10, 15))

\* file is <stem>_<timestamp>.html in the directory of the notebook, the
\* timestamp being tsLen characters accepted by TsOK
OutputNameShape(file, notebook_name, tsLen, TsOK(_)) ==
    LET n  == file.name
        sl == Len(n) - tsLen - 1 - Len(DotHtml)
    IN  /\ sl >= 0
        /\ IsStemOf(SubSeq(n, 1, sl), notebook_name.name)
        /\ n[sl + 1] = "_"
        /\ TsOK(SubSeq(n, sl + 2, sl + 1 + tsLen))
        /\ SubSeq(n, sl + 2 + tsLen, Len(n)) = DotHtml
        /\ file.parent = (IF notebook_name.parent = "." THEN Cwd ELSE notebook_name.parent)

SpawnEvents == {i \in 1..Len(events) : events[i].op = "spawn"}

\* C1 as stated: every output file the converter is asked for is named
\* <stem>_<14 decimal digits>.html and lies in the directory of the input.
C1_Name14Digits ==
    \A i \in SpawnEvents :
        OutputNameShape(events[i].file, argv[events[i].call], 14, IsTimestamp14)

\* C1 amended: every output file the converter is asked for is named
\* <stem>_<YYYYMMDD>_<HHMMSS>.html (8 digits, an underscore, 6 digits) and
\* lies in the directory of the input.
C1_NameDateUnderscoreTime ==
    \A i \in SpawnEvents :
        OutputNameShape(events[i].file, argv[events[i].call], 15, IsTimestamp8_6)

\* a conversion was requested for a relative notebook name with an extension
C1_Witness ==
    \E i \in SpawnEvents :
        /\ argv[events[i].call].parent = "."
        /\ Len(stem(argv[events[i].call].name)) < Len(argv[events[i].call].name)

C3_OnlyBeforeFirstMarker ==
    AppliedTimes(1) =>
        LET c == Converted
            s == fs[html_file]
        IN  IF Occurrences(c, Marker) = {} THEN s = c
            ELSE LET k == CHOOSE i \in Occurrences(c, Marker) :
                              \A j \in Occurrences(c, Marker) : i <= j
                 IN  \E t \in ClockValues :
                        s = SubSeq(c, 1, k - 1) \o html_injection(t) \o SubSeq(c, k, Len(c))

\* the contents of the i-th event is a read of a text without a marker
ReadsNoMarker(i) == events[i].op = "read" /\ Count(events[i].text, Marker) = 0

\* C4: when the converted file holds no marker, the postprocessing raises no
\* error of its own (only a failing file access ends the call), the text
\* written back and left on disk is the text read, which is the text the
\* converter wrote, and the completion line of the notebook is printed.
C4_NoMarkerNoOp ==
    \A i \in 1..Len(events) :
        ReadsNoMarker(i) =>
            LET k == events[i].call
            IN  /\ events[i - 1].op = "exit0" /\ events[i - 1].text = events[i].text
                /\ (i < Len(events) /\ events[i + 1].op = "write")
                      => events[i + 1].text = events[i].text
                /\ (pc = "log" /\ nb = k)
                      => exc = "none" /\ fs[html_file] = events[i].text
                /\ (pc = "raised" /\ nb = k) => exc = "OSError"
                /\ nb > k
                      => /\ Len(stdout) >= k
                         /\ stdout[k].level = "INFO"
                         /\ stdout[k].src = argv[k]
                         /\ stdout[k].dst = events[i].file.name

\* a file without a marker was postprocessed and its notebook reported
C4_Witness ==
    \E i \in 1..Len(events) :
        /\ ReadsNoMarker(i)
        /\ nb > events[i].call
        /\ fs[events[i].file] = events[i].text

\* the operations of call k, in the order they happened
CallOps(k) ==
    LET mine == SelectSeq(events, LAMBDA e : e.call = k)
    IN  [i \in 1..Len(mine) |-> mine[i].op]

IsPrefix(a, b) == Len(a) <= Len(b) /\ SubSeq(b, 1, Len(a)) = a

\* the write event of call k
WriteOf(k) == CHOOSE i \in 1..Len(events) : events[i].op = "write" /\ events[i].call = k

\* C5: when the conversion or the file access of input i fails, the failure
\* leaves export_all_notebooks, nothing is converted, injected or logged for
\* the inputs after i, and the output files of the inputs before i are on
\* disk with the text that was injected into them; a failed conversion of
\* input i leaves exactly i-1 output files.
C5_FailureStopsBatch ==
    pc = "raised" =>
        /\ exc # "none"
        /\ \A i \in 1..Len(events) : events[i].call <= nb
        /\ Len(stdout) = nb - 1
        /\ \A j \in 1..(nb - 1) :
              /\ events[WriteOf(j)].file \in DOMAIN fs
              /\ fs[events[WriteOf(j)].file] = events[WriteOf(j)].text
        /\ exc = "CalledProcessError" => Cardinality(DOMAIN fs) = nb - 1

\* C6: a batch in which every conversion and file access succeeds ends after
\* the last input with one output file and one completion line per input,
\* the lines and the conversions in the order of the argument list.
C6_OneOutputPerInput ==
    (pc = "exit" /\ argv # <<>>) =>
        /\ exc = "none"
        /\ nb = Len(argv) + 1
        /\ Cardinality(DOMAIN fs) = Len(argv)
        /\ Len(stdout) = Len(argv)
        /\ \A k \in 1..Len(argv) :
              /\ stdout[k].level = "INFO"
              /\ stdout[k].src = argv[k]
              /\ CallOps(k) = <<"spawn", "exit0", "read", "write", "print">>
        /\ \A i, j \in 1..Len(events) : i < j => events[i].call <= events[j].call

\* C7: the postprocessing applied twice to a file whose converted text holds
\* one marker leaves two payloads, both before the single marker.
C7_TwiceInsertsTwice ==
    (AppliedTimes(2) /\ Count(Converted, Marker) = 1) =>
        LET s == fs[html_file]
        IN  /\ Count(s, Marker) = 1
            /\ PayloadCount(s) = 2
            /\ \A m \in Occurrences(s, Marker) :
                  /\ IsPayloadAt(s, m - PayloadLen)
                  /\ IsPayloadAt(s, m - 2 * PayloadLen)

\* a text with one marker has been postprocessed twice
C7_Witness == AppliedTimes(2) /\ Count(Converted, Marker) = 1

\* C8: two calls of export_notebook on the same input never target the same
\* file name, and the converter never writes over a file an earlier call
\* produced.
C8_UniqueOutputNames ==
    /\ \A i, j \in SpawnEvents :
          (i < j /\ resolve(argv[events[i].call]) = resolve(argv[events[j].call]))
             => events[i].file # events[j].file
    /\ \A i, j \in 1..Len(events) :
          (i < j /\ events[i].op = "write" /\ events[j].op = "exit0")
             => events[i].file # events[j].file

\* C9: with no arguments the script prints the usage text and ends without an
\* error; export_all_notebooks is not entered, no converter is started and no
\* file is created or changed.
C9_NoArgsNoWork ==
    argv = <<>> =>
        /\ pc \in {"main", "exit"}
        /\ nb = 0
        /\ events = <<>>
        /\ DOMAIN fs = {}
        /\ exc = "none"
        /\ stdout = (IF pc = "exit" THEN <<UsageLine>> ELSE <<>>)

\* the script has ended after a run without arguments
C9_Witness == argv = <<>> /\ pc = "exit" /\ stdout = <<UsageLine>>

\* C10: in every call the steps are ordered: converter started, converter
\* exited with status zero, file read, file written, completion line printed;
\* after a non-zero exit the call has raised CalledProcessError, the file is
\* neither read nor written and no completion line is printed for it.
C10_StepOrder ==
    \A k \in 1..Len(argv) :
        LET ops == CallOps(k)
        IN  /\ \/ IsPrefix(ops, <<"spawn", "exit0", "read", "write", "print">>)
               \/ ops = <<"spawn", "exit1">>
            /\ ops = <<"spawn", "exit1">>
                  => pc = "raised" /\ exc = "CalledProcessError" /\ Len(stdout) < k
            /\ (Len(stdout) >= k) = (\E i \in 1..Len(ops) : ops[i] = "print")
            /\ (pc = "wait" /\ nb = k) => ops = <<"spawn">>

\* one call has completed all its steps and a later one has a failed converter
C10_Witness ==
    \E k1, k2 \in 1..Len(argv) :
        /\ CallOps(k1) = <<"spawn", "exit0", "read", "write", "print">>
        /\ CallOps(k2) = <<"spawn", "exit1">>

\* C11: after any sequence of toggleLines, toggleHeadings and toggleAll calls
\* a call of resetView leaves no line-numbered pre with hide-lines and the
\* body without hide-headings; and at every point all line-numbered pre
\* elements agree on whether hide-lines is set.
C11_ResetAndAgreement ==
    /\ last.fn = "resetView" =>
          /\ \A i \in LineNumbered(pres) : "hide-lines" \notin pres[i].classes
          /\ "hide-headings" \notin body
    /\ \A i, j \in LineNumbered(pres) :
          ("hide-lines" \in pres[i].classes) = ("hide-lines" \in pres[j].classes)

\* resetView was called on a loaded page with two line-numbered pre elements
\* while line numbers and heading numbers were hidden
C11_Witness ==
    /\ last = [fn |-> "resetView", lines_hidden |-> TRUE, headings_hidden |-> TRUE]
    /\ loaded
    /\ Cardinality(LineNumbered(pres)) >= 2

====
